---- MODULE Spec2Model ----
(***************************************************************************)
(* State-machine model of the react-fake-pinia stores.                     *)
(*                                                                         *)
(*  - the transactional store   (src/unnamed/part_001)      : SpecT        *)
(*  - the getter-caching store  (src/src/FCStore/defineStore.ts) : SpecG   *)
(*  - the two store registries  (defineStore / HMR clear)   : SpecR        *)
(*                                                                         *)
(* JavaScript values are encoded as integers: a value >= 0 is a primitive, *)
(* a value < 0 is an object reference (equality on it is reference         *)
(* equality).                                                              *)
(***************************************************************************)
EXTENDS Integers, Sequences, FiniteSets, TLC

\* ------------------------------------------------------------------ bounds
\* largest primitive value a numeric field takes
MaxCount == 1
\* deepest nesting of synchronously running action invocations (transactional store)
MaxDepth == 2
\* most promises of async actions pending at once
MaxAsync == 1
\* most store handles the registries allocate
MaxHandles == 4
\* deepest nesting of running action wrappers of the getter-caching store
MaxNest == 1
\* most promises pending at once in a program whose async actions overlap
MaxOverlap == 2
\* most entries that getter functions which threw leave on globalActiveGetters
MaxStale == 1

\* ------------------------------------------------------------ JS helpers
\* typeof value === "object" && value !== null
IsObject(v) == v < 0

EmptyObj == [k \in {} |-> 0]

\* { ...obj, [k]: v }
Put(obj, k, v) == [x \in DOMAIN obj \cup {k} |-> IF x = k THEN v ELSE obj[x]]

\* Object.assign({...target}, source)
Assign(target, source) ==
    [x \in DOMAIN target \cup DOMAIN source |->
        IF x \in DOMAIN source THEN source[x] ELSE target[x]]

\* the restriction of a record to the keys in S
Pick(obj, S) == [x \in S |-> obj[x]]

\* ===================================================================
\*  Transactional store  (src/unnamed/part_001)
\* ===================================================================

\* the fields of options.state() of the store under test (count and obj of
\* src/src/store.ts); a numeric field is counted from its initial value, written 0
TFields == {"count", "obj"}

\* options.state(): ref is the object the initializer returns for obj, one it builds
\* anew or one it returned before
TInitialState(ref) == [f \in TFields |-> IF f = "count" THEN 0 ELSE ref]

\* an object reference that is not the one the state holds
FreshRef(state) == IF "obj" \in DOMAIN state /\ state["obj"] = -1 THEN -2 ELSE -1

\* the values callers assign to each field
TValues(f) == IF f = "count" THEN 0..MaxCount ELSE IF f = "obj" THEN {-1, -2} ELSE {1}

\* the partial records callers pass to $patch
TPartials == UNION {[S -> 0..MaxCount \cup {-1, -2}] : S \in SUBSET TFields}
TPatchArgs == {p \in TPartials : \A f \in DOMAIN p : p[f] \in TValues(f)}

Listeners == {"l1"}

\* the listeners of a program that subscribes two
TwoListeners == {"l1", "l2"}

\* the property names used on the store: the declared fields, and "extra", a property
\* that is no field of options.state() (it is in ctx.state only when storage held it)
TProps == TFields \cup {"extra"}

\* the error values an action body throws or rejects with
Errors == {"e1", "e2"}
NoError == "-"

\* JSON.stringify / JSON.parse of a state: an object is stored by its content, and
\* parsing builds a new object; the objects of the store under test all have the
\* content of the initializer's object
ObjJson == 0 - 100
Serialize(state) == [k \in DOMAIN state |-> IF IsObject(state[k]) THEN ObjJson ELSE state[k]]
Deserialize(data) == [k \in DOMAIN data |-> IF data[k] = ObjJson THEN 0 - 1 ELSE data[k]]

\* storage.getItem gives null: nothing is restored
NoItem == EmptyObj

\* what storage may hold under the store's key when the store is first constructed:
\* nothing, or a snapshot saved by an earlier run whose state had the property "extra"
StoredItems ==
    {NoItem,
     [k \in TProps |-> IF k = "obj" THEN ObjJson ELSE 1]}

VARIABLES
    tState,         \* ctx.state
    subscribers,    \* ctx.subscribers (a Set: insertion-ordered, no duplicates)
    isUpdating,     \* ctx.isUpdating
    batchOldState,  \* ctx.batchOldState
    batchChanges,   \* ctx.batchChanges
    stack,          \* wrapper invocations whose action body is running (innermost last)
    pending,        \* wrapper invocations whose promise has not settled, counted by
                    \* their previousIsUpdating (outer: false, nested: true)
    persist,        \* pOpts?.enabled && pOpts.storage
    storage,        \* the item of pOpts.storage under the store's key
    notified,       \* listener invocations made by the last step
    last,           \* the last step: the operation, whether isUpdating held before it
    win,            \* history of the current transaction window
    outcome         \* what the last step did besides: storage.setItem done (saved),
                    \* console.warn called (warned), console.error called (logged), the
                    \* error the action body raised (raised) and the error the caller
                    \* got (error)

VARIABLES
    faults          \* pOpts.serialize or pOpts.storage.setItem may throw

fvars == <<faults>>

tvars == <<tState, subscribers, isUpdating, batchOldState, batchChanges,
           stack, pending, persist, storage, notified, last, win, outcome>>

\* vals: the fields changed by a direct write or a $patch, with the value of the last
\* such change; patched: those changed by $patch; reset: $reset was called;
\* noted: a listener ran before the close; nested: an action was called inside
WinEmpty == [patched |-> {}, reset |-> FALSE, noted |-> FALSE, nested |-> FALSE,
             vals |-> EmptyObj]

Quiet == [saved |-> FALSE, warned |-> FALSE, logged |-> FALSE, raised |-> NoError,
          error |-> NoError]

\* a stored text that deserialize rejects (JSON.parse throws)
Malformed == [k \in {"not json"} |-> 0]

\* the load at construction throws: storage.getItem throws (fails) or deserialize does
LoadThrows(item, fails) == fails \/ item = Malformed

\* a load that is not guarded by try/catch
TLoadedUnguarded(initial, item, fails) == Assign(initial, Deserialize(item))

\* defineStore, restore in try/catch: if (data) Object.assign(ctx.state, deserialize(data))
TLoaded(initial, item, fails) ==
    IF LoadThrows(item, fails) \/ item = NoItem THEN initial
    ELSE Assign(initial, Deserialize(item))

\* defineStore, for an id the registry does not hold: ctx is built from options.state()
\* and, with persist enabled, the stored item is assigned over it
Constructed(ref, enabled, item) ==
    IF enabled THEN TLoaded(TInitialState(ref), item, FALSE) ELSE TInitialState(ref)

TInitWith(enabled, items) ==
    /\ persist = enabled
    /\ storage \in items
    /\ tState = Constructed(0 - 1, persist, storage)
    /\ subscribers = <<>>
    /\ isUpdating = FALSE
    /\ batchOldState = EmptyObj
    /\ batchChanges = EmptyObj
    /\ stack = <<>>
    /\ pending = [outer |-> 0, nested |-> 0]
    /\ notified = <<>>
    /\ last = [op |-> "init", outer |-> FALSE, locked |-> FALSE]
    /\ win = WinEmpty
    /\ outcome = Quiet

\* the store defined without persist
TInit == TInitWith(FALSE, {NoItem})

\* the store defined with persist: true
TInitPersist == TInitWith(TRUE, StoredItems)

\* a notify that invokes only the first listener
NotifyCallsFirst(subs, state, prevState, changes, locked) ==
    [i \in 1..(IF subs = <<>> THEN 0 ELSE 1) |->
        [listener |-> subs[i], state |-> state, prev |-> prevState,
         delta |-> changes, locked |-> locked]]

\* ctx.notify: ctx.subscribers.forEach((l) => l(ctx.state, prevState, changes))
NotifyCalls(subs, state, prevState, changes, locked) ==
    [i \in 1..Len(subs) |->
        [listener |-> subs[i], state |-> state, prev |-> prevState,
         delta |-> changes, locked |-> locked]]

\* ctx.notify: storage.setItem(key, serialize(ctx.state)) when persist is enabled
Saved(state) == IF persist THEN Serialize(state) ELSE storage

\* a step in which ctx.notify ran
Flushed == [Quiet EXCEPT !.saved = persist]

\* whether serialize and setItem complete
SaveOutcomes == IF persist /\ faults THEN BOOLEAN ELSE {TRUE}

\* a failed save whose error is not caught
SaveFailureRaises(out) == [out EXCEPT !.saved = FALSE, !.logged = TRUE, !.error = "e1"]

\* ctx.notify, catch: console.error; nothing is rethrown
SaveFailure(out) == [out EXCEPT !.saved = FALSE, !.logged = TRUE]

\* ctx.notify after the listeners ran: try { storage.setItem(key, serialize(ctx.state)) }
\* catch (out: what the step reports when the save completes)
PersistState(state, out) ==
    \E ok \in SaveOutcomes :
       /\ storage' = IF ok THEN Saved(state) ELSE storage
       /\ outcome' = IF ok THEN out ELSE SaveFailure(out)

\* history kept while a transaction is open, dropped by the first step outside one
WinAfter(locked, w) == IF locked THEN w ELSE WinEmpty

\* an applyChanges that skips no key
ApplySkipsNothing(oldValue, value) == FALSE

\* applyChanges: a key is skipped when the value is identical and not an object
ApplySkips(oldValue, value) == oldValue = value /\ ~IsObject(value)

EffectiveKeys(state, partial) ==
    {k \in DOMAIN partial :
        ~(k \in DOMAIN state /\ ApplySkips(state[k], partial[k]))}

\* a set trap that compares every value strictly
SetChangedStrict(oldValue, value) == oldValue # value

\* storeProxy.set: primitives compared strictly, objects always changed
SetChanged(oldValue, value) == oldValue # value \/ IsObject(value)

\* a store that notifies at once, lock or no lock
DefersNever(updating) == FALSE

\* storeProxy.set / $patch: inside a transaction the change is only accumulated
Defers(updating) == updating

\* a refusal without a warning
RefusedSilently == Quiet

\* storeProxy.set, prop not in ctx.state: console.warn, return false
Refused == [Quiet EXCEPT !.warned = TRUE]

\* storeProxy.set, for a prop that is no member of the store object: a prop that is not
\* in ctx.state is refused with a warning
TWrite(f, v) ==
    /\ IF f \notin DOMAIN tState
       THEN /\ UNCHANGED <<tState, batchChanges, storage>>
            /\ notified' = <<>>
            /\ win' = WinAfter(isUpdating, win)
            /\ outcome' = Refused
       ELSE IF SetChanged(tState[f], v)
       THEN /\ tState' = [tState EXCEPT ![f] = v]
            /\ IF Defers(isUpdating)
               THEN /\ batchChanges' = Put(batchChanges, f, v)
                    /\ notified' = <<>>
                    /\ outcome' = Quiet
                    /\ UNCHANGED storage
               ELSE /\ UNCHANGED batchChanges
                    /\ notified' = NotifyCalls(subscribers, tState', tState,
                                               Put(EmptyObj, f, v), isUpdating)
                    /\ PersistState(tState', Flushed)
            /\ win' = WinAfter(isUpdating,
                        [win EXCEPT !.vals = Put(@, f, v)])
       ELSE /\ UNCHANGED <<tState, batchChanges, storage>>
            /\ notified' = <<>>
            /\ win' = WinAfter(isUpdating, win)
            /\ outcome' = Quiet
    /\ last' = [op |-> "write", outer |-> FALSE, locked |-> isUpdating]
    /\ UNCHANGED <<subscribers, isUpdating, batchOldState, stack, pending, persist>>

\* $patch
TPatch(partial) ==
    LET eff == EffectiveKeys(tState, partial)
        effectiveChanges == Pick(partial, eff)
    IN  /\ tState' = Assign(tState, effectiveChanges)
        /\ IF eff = {}
           THEN /\ UNCHANGED <<batchChanges, storage>>
                /\ notified' = <<>>
                /\ outcome' = Quiet
           ELSE IF Defers(isUpdating)
                THEN /\ batchChanges' = Assign(batchChanges, effectiveChanges)
                     /\ notified' = <<>>
                     /\ outcome' = Quiet
                     /\ UNCHANGED storage
                ELSE /\ UNCHANGED batchChanges
                     /\ notified' = NotifyCalls(subscribers, tState', tState,
                                                effectiveChanges, isUpdating)
                     /\ PersistState(tState', Flushed)
        /\ win' = WinAfter(isUpdating,
                    [win EXCEPT !.patched = @ \cup eff,
                                !.vals = Assign(@, effectiveChanges)])
        /\ last' = [op |-> "patch", outer |-> FALSE, locked |-> isUpdating]
        /\ UNCHANGED <<subscribers, isUpdating, batchOldState, stack, pending, persist>>

\* the value $reset reports for a removed field (undefined)
Undefined == 0 - 9

\* a $reset that deletes nothing
ResetKeepsAll(state, newState) == DOMAIN state

\* $reset, first loop: the fields left after deleting those options.state() lacks
ResetKeeps(state, newState) == DOMAIN state \cap DOMAIN newState

\* a $reset that reports only the fields it overwrites
ResetChangesOverwritten(state, newState) ==
    [k \in {x \in DOMAIN newState : x \notin DOMAIN state \/ state[x] # newState[x]} |->
        newState[k]]

\* $reset: the changes against options.state()
ResetChanges(state, newState) ==
    [k \in (DOMAIN state \ DOMAIN newState)
           \cup {x \in DOMAIN newState : x \notin DOMAIN state \/ state[x] # newState[x]} |->
        IF k \in DOMAIN newState THEN newState[k] ELSE Undefined]

\* $reset (ref: the object options.state() returns this time)
TReset(ref) ==
    LET newState == TInitialState(ref)
        changes == ResetChanges(tState, newState)
    IN  /\ tState' = Assign(Pick(tState, ResetKeeps(tState, newState)),
                         Pick(changes, DOMAIN changes \cap DOMAIN newState))
        /\ IF DOMAIN changes # {}
           THEN /\ notified' = NotifyCalls(subscribers, tState', tState, changes, isUpdating)
                /\ PersistState(tState', Flushed)
           ELSE /\ notified' = <<>>
                /\ outcome' = Quiet
                /\ UNCHANGED storage
        /\ win' = WinAfter(isUpdating,
                    [win EXCEPT !.reset = TRUE,
                                !.noted = @ \/ (DOMAIN changes # {} /\ subscribers # <<>>)])
        /\ last' = [op |-> "reset", outer |-> FALSE, locked |-> isUpdating]
        /\ UNCHANGED <<subscribers, isUpdating, batchOldState, batchChanges, stack, pending,
                       persist>>

\* $subscribe: ctx.subscribers is a Set, so adding a listener it holds changes nothing;
\* console.warn is called for such a listener
TSubscribe(l) ==
    /\ subscribers' = IF \E i \in 1..Len(subscribers) : subscribers[i] = l
                      THEN subscribers ELSE Append(subscribers, l)
    /\ notified' = <<>>
    /\ win' = WinAfter(isUpdating, win)
    /\ last' = [op |-> "subscribe", outer |-> FALSE, locked |-> isUpdating]
    /\ outcome' = IF \E i \in 1..Len(subscribers) : subscribers[i] = l
                  THEN [Quiet EXCEPT !.warned = TRUE] ELSE Quiet
    /\ UNCHANGED <<tState, isUpdating, batchOldState, batchChanges, stack, pending,
                   persist, storage>>

\* the handle returned by $subscribe
TUnsubscribe(l) ==
    /\ \E i \in 1..Len(subscribers) : subscribers[i] = l
    /\ subscribers' = SelectSeq(subscribers, LAMBDA x : x # l)
    /\ notified' = <<>>
    /\ win' = WinAfter(isUpdating, win)
    /\ last' = [op |-> "unsubscribe", outer |-> FALSE, locked |-> isUpdating]
    /\ outcome' = Quiet
    /\ UNCHANGED <<tState, isUpdating, batchOldState, batchChanges, stack, pending,
                   persist, storage>>

\* createActionWrapper, up to actionFn.apply: the transaction is opened unless one is open
TCall ==
    /\ Len(stack) < MaxDepth
    /\ stack' = Append(stack, [prev |-> isUpdating])
    /\ IF ~isUpdating
       THEN /\ isUpdating' = TRUE
            /\ batchOldState' = tState
            /\ batchChanges' = EmptyObj
            /\ win' = WinEmpty
       ELSE /\ UNCHANGED <<isUpdating, batchOldState, batchChanges>>
            /\ win' = [win EXCEPT !.nested = TRUE]
    /\ notified' = <<>>
    /\ last' = [op |-> "call", outer |-> ~isUpdating, locked |-> isUpdating]
    /\ outcome' = Quiet
    /\ UNCHANGED <<tState, subscribers, pending, persist, storage>>

\* a commit that never closes the transaction
CommitsNever(previousIsUpdating) == FALSE

\* commit: only the invocation that opened the transaction closes it
Commits(previousIsUpdating) == ~previousIsUpdating

\* a commit that notifies whatever was accumulated
HasBatchAlways(changes) == TRUE

\* commit: a notification is sent only when changes were accumulated
HasBatch(changes) == DOMAIN changes # {}

\* commit(); the caller gets the error the action's promise was rejected with, if any
Commit(previousIsUpdating, e) ==
    IF Commits(previousIsUpdating)
    THEN /\ isUpdating' = FALSE
         /\ IF HasBatch(batchChanges)
            THEN /\ notified' = NotifyCalls(subscribers, tState, batchOldState,
                                            batchChanges, FALSE)
                 /\ batchChanges' = EmptyObj
                 /\ PersistState(tState, [Flushed EXCEPT !.raised = e, !.error = e])
            ELSE /\ notified' = <<>>
                 /\ outcome' = [Quiet EXCEPT !.raised = e, !.error = e]
                 /\ UNCHANGED <<batchChanges, storage>>
    ELSE /\ notified' = <<>>
         /\ outcome' = [Quiet EXCEPT !.raised = e, !.error = e]
         /\ UNCHANGED <<isUpdating, batchChanges, storage>>

\* the action body returned a value that is no promise: commit(); return res
TReturn ==
    /\ stack # <<>>
    /\ LET fr == stack[Len(stack)]
       IN  /\ Commit(fr.prev, NoError)
           /\ last' = [op |-> "return", outer |-> ~fr.prev, locked |-> isUpdating]
    /\ stack' = SubSeq(stack, 1, Len(stack) - 1)
    /\ UNCHANGED <<tState, subscribers, batchOldState, pending, win, persist>>

\* the action body returned a promise: return res.finally(commit) (most: the most
\* promises the program leaves pending at once)
TReturnsPromise(most) ==
    /\ stack # <<>>
    /\ pending.outer + pending.nested < most
    /\ pending' = IF stack[Len(stack)].prev
                  THEN [pending EXCEPT !.nested = @ + 1]
                  ELSE [pending EXCEPT !.outer = @ + 1]
    /\ stack' = SubSeq(stack, 1, Len(stack) - 1)
    /\ notified' = <<>>
    /\ last' = [op |-> "returnPromise", outer |-> ~stack[Len(stack)].prev,
                locked |-> isUpdating]
    /\ outcome' = Quiet
    /\ UNCHANGED <<tState, subscribers, isUpdating, batchOldState, batchChanges, win,
                   persist, storage>>

TReturnPromise == TReturnsPromise(MaxAsync)

\* a catch block that releases the lock whoever holds it
TThrowReleases(e) ==
    /\ stack # <<>>
    /\ isUpdating' = FALSE
    /\ last' = [op |-> "throw", outer |-> ~stack[Len(stack)].prev, locked |-> isUpdating]
    /\ stack' = SubSeq(stack, 1, Len(stack) - 1)
    /\ notified' = <<>>
    /\ outcome' = [Quiet EXCEPT !.raised = e, !.error = e]
    /\ UNCHANGED <<tState, subscribers, batchOldState, batchChanges, pending, win,
                   persist, storage>>

\* the action body threw e synchronously: the catch block releases the lock and
\* rethrows e
TThrow(e) ==
    /\ stack # <<>>
    /\ LET fr == stack[Len(stack)]
       IN  /\ isUpdating' = IF ~fr.prev THEN FALSE ELSE isUpdating
           /\ last' = [op |-> "throw", outer |-> ~fr.prev, locked |-> isUpdating]
    /\ stack' = SubSeq(stack, 1, Len(stack) - 1)
    /\ notified' = <<>>
    /\ outcome' = [Quiet EXCEPT !.raised = e, !.error = e]
    /\ UNCHANGED <<tState, subscribers, batchOldState, batchChanges, pending, win,
                   persist, storage>>

\* a pending promise settles, fulfilled (e is NoError) or rejected with e: its finally
\* callback runs commit, and the promise the caller holds settles the same way
TSettle(previousIsUpdating, e) ==
    /\ stack = <<>>
    /\ IF previousIsUpdating THEN pending.nested > 0 ELSE pending.outer > 0
    /\ Commit(previousIsUpdating, e)
    /\ last' = [op |-> "settle", outer |-> ~previousIsUpdating, locked |-> isUpdating]
    /\ pending' = IF previousIsUpdating
                  THEN [pending EXCEPT !.nested = @ - 1]
                  ELSE [pending EXCEPT !.outer = @ - 1]
    /\ UNCHANGED <<tState, subscribers, batchOldState, stack, win, persist>>

\* the registry is cleared (module.hot.dispose) and defineStore is called again with
\* the same id and options: a new ctx is built, restored from storage when persist is
\* enabled. No invocation of the discarded store is in flight.
TConstruct ==
    /\ stack = <<>>
    /\ pending = [outer |-> 0, nested |-> 0]
    /\ tState' = Constructed(FreshRef(tState), persist, storage)
    /\ subscribers' = <<>>
    /\ isUpdating' = FALSE
    /\ batchOldState' = EmptyObj
    /\ batchChanges' = EmptyObj
    /\ notified' = <<>>
    /\ win' = WinEmpty
    /\ last' = [op |-> "construct", outer |-> FALSE, locked |-> FALSE]
    /\ outcome' = Quiet
    /\ UNCHANGED <<stack, pending, persist, storage>>

\* ===================================================================
\*  Getter-caching store  (src/src/FCStore/defineStore.ts)
\*  The stores under test are those of src/src/stores: "counter" (count; getter
\*  doubledCount) and "user" (user, log; getter greeting, which reads its own field
\*  user and the getter doubledCount of the other store).
\* ===================================================================

GStores == {"counter", "user"}

\* `${id}/${prop}` for the state fields, `${id}/${key}` for the getters
PropKeys == {"counter/count", "user/user", "user/log"}

\* a property name that is no field of the state of store "user"
UnknownKeys == {"user/extra"}
GetterKeys == {"counter/doubledCount", "user/greeting"}

StoreOf(key) == IF key = "counter/count" \/ key = "counter/doubledCount"
                THEN "counter" ELSE "user"

PropsOf(s) == {p \in PropKeys : StoreOf(p) = s}

\* the user objects: -1 and -3 are { name: "Alice" }, -2 is { name: "Bob" }
UserRefs == {-1, -2, -3}
NameOf(ref) == IF ref = -2 THEN 1 ELSE 0

\* options.state() of either store; every call builds a new user object (ref)
GInitialState(s, ref) ==
    IF s = "counter" THEN [p \in {"counter/count"} |-> 0]
    ELSE [p \in {"user/user", "user/log"} |-> IF p = "user/user" THEN ref ELSE 0]

\* a new { name: "Alice" } object, distinct from the one the state holds
FreshUser(state) == IF state["user/user"] = -1 THEN -3 ELSE -1

\* the values callers assign to each field
GValues(p) == IF p = "counter/count" THEN 0..MaxCount
              ELSE IF p = "user/user" THEN UserRefs ELSE {0, 1}

\* the partial records callers pass to $patch of store s
GPatchArgs(s) ==
    {q \in UNION {[K -> 0..MaxCount \cup UserRefs] : K \in SUBSET PropsOf(s)} :
        \A p \in DOMAIN q : q[p] \in GValues(p)}

VARIABLES
    gState,                      \* the state objects of the two stores, by `${id}/${prop}`
    globalGetterCache,           \* globalGetterCache
    globalPropertyToGetters,     \* globalPropertyToGetters
    globalGetterToDependencies,  \* globalGetterToDependencies
    globalActiveGetters,         \* globalActiveGetters
    gIsUpdating,                 \* isUpdating of each store
    currentChanges,              \* currentChanges of each store
    gStack,                      \* the stores whose action wrapper is running (innermost last)
    gEvals,                      \* the getter functions invoked by the last step, in order
    gNotified,                   \* the changes handed to the listeners by the last step
    gLast                        \* the last step: operation, key, value read, cache keys before

gvars == <<gState, globalGetterCache, globalPropertyToGetters, globalGetterToDependencies,
           globalActiveGetters, gIsUpdating, currentChanges, gStack, gEvals, gNotified,
           gLast>>

NoKey == "-"

\* the stores after construction, with the getters their definitions passed
GInitWith(getters) ==
    /\ gState = Assign(GInitialState("counter", -1), GInitialState("user", -1))
    /\ globalGetterCache = EmptyObj
    /\ globalPropertyToGetters = [p \in PropKeys |-> {}]
    /\ globalGetterToDependencies = [k \in getters |-> {}]
    /\ globalActiveGetters = <<>>
    /\ gIsUpdating = [s \in GStores |-> FALSE]
    /\ currentChanges = [s \in GStores |-> EmptyObj]
    /\ gStack = <<>>
    /\ gEvals = <<>>
    /\ gNotified = <<>>
    /\ gLast = [op |-> "init", key |-> NoKey, value |-> 0, changed |-> {}, had |-> {},
                known |-> FALSE]

GInit == GInitWith(GetterKeys)

\* the getters that have been computed: a computation registers the getter for the
\* fields it reads, and registrations are never removed
Known == UNION {globalPropertyToGetters[p] : p \in PropKeys}

\* the process-wide reactive structures, threaded through one synchronous evaluation
Globals == [cache |-> globalGetterCache, p2g |-> globalPropertyToGetters,
            deps |-> globalGetterToDependencies, active |-> globalActiveGetters,
            evals |-> <<>>]

Top(seq) == seq[Len(seq)]
Pop(seq) == SubSeq(seq, 1, Len(seq) - 1)

\* depTrackingProxy.get: the property is registered for every active getter, and in
\* the dependencies of the innermost one
TrackRead(G, propKey) ==
    IF G.active = <<>> THEN G
    ELSE [G EXCEPT !.p2g[propKey] = @ \cup {G.active[i] : i \in 1..Len(G.active)},
                   !.deps[Top(G.active)] = @ \cup {propKey}]

\* an accessor that hands nothing on when it hits the cache
HitPropagatesNothing(G, getterKey) == G

\* getter accessor, cache hit: the dependencies of the cached getter are handed to the
\* getter being computed
HitPropagate(G, getterKey) ==
    IF G.active = <<>> THEN G
    ELSE LET outer == Top(G.active)
             ds == G.deps[getterKey]
         IN  [G EXCEPT !.p2g = [p \in PropKeys |-> IF p \in ds THEN @[p] \cup {outer} ELSE @[p]],
                       !.deps[outer] = @ \cup ds]

\* getter accessor, cache miss, before the call of the getter function
BeginCompute(G, getterKey) ==
    [G EXCEPT !.active = Append(@, getterKey),
              !.deps[getterKey] = {},
              !.evals = Append(@, getterKey)]

\* getter accessor, cache miss, after the call of the getter function
EndCompute(G, getterKey, value) ==
    [G EXCEPT !.active = Pop(@),
              !.cache = Put(@, getterKey, value)]

\* `Hello, ${name}! The doubled count is ${doubled}.`
Greeting(name, doubled) == name * 100 + doubled

\* counter.doubledCount: this.count * 2
GetDoubledCount(G) ==
    IF "counter/doubledCount" \in DOMAIN G.cache
    THEN [g |-> HitPropagate(G, "counter/doubledCount"),
          value |-> G.cache["counter/doubledCount"]]
    ELSE LET G1 == BeginCompute(G, "counter/doubledCount")
             G2 == TrackRead(G1, "counter/count")
             value == gState["counter/count"] * 2
         IN  [g |-> EndCompute(G2, "counter/doubledCount", value), value |-> value]

\* user.greeting: reads this.user, then counterStore.doubledCount
GetGreeting(G) ==
    IF "user/greeting" \in DOMAIN G.cache
    THEN [g |-> HitPropagate(G, "user/greeting"), value |-> G.cache["user/greeting"]]
    ELSE LET G1 == BeginCompute(G, "user/greeting")
             G2 == TrackRead(G1, "user/user")
             r == GetDoubledCount(G2)
             value == Greeting(NameOf(gState["user/user"]), r.value)
         IN  [g |-> EndCompute(r.g, "user/greeting", value), value |-> value]

\* Two more getters a definition of store "user" may pass in options.getters: banner
\* reads the getter greeting, which makes the chain banner -> greeting -> doubledCount
\* -> count; summary reads log and, only while log is falsy, the count of the other
\* store, so the fields it reads differ from one computation to the next.
ExtraGetters == {"user/banner", "user/summary"}

\* `[${greeting}]`
Banner(greeting) == greeting + 1000

\* user.banner: reads this.greeting
GetBanner(G) ==
    IF "user/banner" \in DOMAIN G.cache
    THEN [g |-> HitPropagate(G, "user/banner"), value |-> G.cache["user/banner"]]
    ELSE LET G1 == BeginCompute(G, "user/banner")
             r == GetGreeting(G1)
             value == Banner(r.value)
         IN  [g |-> EndCompute(r.g, "user/banner", value), value |-> value]

\* user.summary: this.log ? -1 : counterStore.count
GetSummary(G) ==
    IF "user/summary" \in DOMAIN G.cache
    THEN [g |-> HitPropagate(G, "user/summary"), value |-> G.cache["user/summary"]]
    ELSE LET G1 == BeginCompute(G, "user/summary")
             G2 == TrackRead(G1, "user/log")
             G3 == IF gState["user/log"] # 0 THEN G2 ELSE TrackRead(G2, "counter/count")
             value == IF gState["user/log"] # 0 THEN 0 - 1 ELSE gState["counter/count"]
         IN  [g |-> EndCompute(G3, "user/summary", value), value |-> value]

\* A getter a definition of store "user" may pass whose function throws: logSize
\* returns this.log.length, a TypeError while log is null (the initial value, 0 here).
ThrowingGetters == {"user/logSize"}

\* user.logSize: this.log.length; when the getter function throws, the accessor is left
\* at the call: nothing after it runs (no pop, no cache entry)
GetLogSize(G) ==
    IF "user/logSize" \in DOMAIN G.cache
    THEN [g |-> HitPropagate(G, "user/logSize"), value |-> G.cache["user/logSize"],
          threw |-> FALSE]
    ELSE LET G1 == BeginCompute(G, "user/logSize")
             G2 == TrackRead(G1, "user/log")
         IN  IF gState["user/log"] = 0
             THEN [g |-> G2, value |-> 0, threw |-> TRUE]
             ELSE [g |-> EndCompute(G2, "user/logSize", 1), value |-> 1, threw |-> FALSE]

GetGetter(G, getterKey) ==
    IF getterKey = "counter/doubledCount" THEN GetDoubledCount(G)
    ELSE IF getterKey = "user/greeting" THEN GetGreeting(G)
    ELSE IF getterKey = "user/banner" THEN GetBanner(G)
    ELSE GetSummary(G)

\* a caller reads a getter of a store
GRead(getterKey) ==
    LET r == GetGetter(Globals, getterKey)
    IN  /\ globalGetterCache' = r.g.cache
        /\ globalPropertyToGetters' = r.g.p2g
        /\ globalGetterToDependencies' = r.g.deps
        /\ globalActiveGetters' = r.g.active
        /\ gEvals' = r.g.evals
        /\ gNotified' = <<>>
        /\ gLast' = [op |-> "read", key |-> getterKey, value |-> r.value, changed |-> {},
                     had |-> DOMAIN globalGetterCache, known |-> getterKey \in Known]
        /\ UNCHANGED <<gState, gIsUpdating, currentChanges, gStack>>

\* a caller reads the getter logSize; the caller gets the value or the error
GReadLogSize ==
    LET r == GetLogSize(Globals)
    IN  /\ Len(globalActiveGetters) < MaxStale
        /\ globalGetterCache' = r.g.cache
        /\ globalPropertyToGetters' = r.g.p2g
        /\ globalGetterToDependencies' = r.g.deps
        /\ globalActiveGetters' = r.g.active
        /\ gEvals' = r.g.evals
        /\ gNotified' = <<>>
        /\ gLast' = [op |-> IF r.threw THEN "threw" ELSE "read", key |-> "user/logSize",
                     value |-> r.value, changed |-> {},
                     had |-> DOMAIN globalGetterCache, known |-> "user/logSize" \in Known]
        /\ UNCHANGED <<gState, gIsUpdating, currentChanges, gStack>>

\* notifySubscribers: nothing is sent for an empty record
NotifySubscribers(s, changes) ==
    IF DOMAIN changes = {} THEN <<>> ELSE <<[store |-> s, changes |-> changes]>>

\* storeProxy.set: the getters registered for the property lose their cache entry
Invalidated(propKey) == globalPropertyToGetters[propKey]

\* notifySubscribers ends with persistState(): storage.setItem is called by the steps
\* that hand a non-empty record to the listeners
GSaved == gNotified # <<>>

\* storeProxy.set: a prop that is not in state is refused with a warning (gLast.op is
\* "warn"); for a prop of state the getters registered for it are invalidated
GWrite(propKey, value) ==
    IF propKey \notin DOMAIN gState
    THEN /\ gEvals' = <<>>
         /\ gNotified' = <<>>
         /\ gLast' = [op |-> "warn", key |-> propKey, value |-> 0, changed |-> {},
                      had |-> DOMAIN globalGetterCache, known |-> FALSE]
         /\ UNCHANGED <<gState, globalGetterCache, globalPropertyToGetters,
                        globalGetterToDependencies, globalActiveGetters, gIsUpdating,
                        currentChanges, gStack>>
    ELSE
    LET s == StoreOf(propKey)
        prev == gState[propKey]
        changed == prev # value
        recorded == IF changed THEN Put(currentChanges[s], propKey, prev)
                    ELSE currentChanges[s]
    IN  /\ gState' = [gState EXCEPT ![propKey] = value]
        /\ globalGetterCache' =
              IF changed
              THEN Pick(globalGetterCache, DOMAIN globalGetterCache \ Invalidated(propKey))
              ELSE globalGetterCache
        /\ IF changed /\ ~gIsUpdating[s]
           THEN /\ gNotified' = NotifySubscribers(s, recorded)
                /\ currentChanges' = [currentChanges EXCEPT ![s] = EmptyObj]
           ELSE /\ gNotified' = <<>>
                /\ currentChanges' = [currentChanges EXCEPT ![s] = recorded]
        /\ gEvals' = <<>>
        /\ gLast' = [op |-> "write", key |-> propKey, value |-> 0,
                     changed |-> IF changed THEN {propKey} ELSE {},
                     had |-> DOMAIN globalGetterCache, known |-> FALSE]
        /\ UNCHANGED <<globalPropertyToGetters, globalGetterToDependencies,
                       globalActiveGetters, gIsUpdating, gStack>>

\* $patch: Object.assign(state, partialState), then notifySubscribers
PatchOf(s, partialState, op) ==
    LET recorded == Assign(currentChanges[s], Pick(gState, DOMAIN partialState))
    IN  /\ gState' = Assign(gState, partialState)
        /\ gIsUpdating' = [gIsUpdating EXCEPT ![s] = FALSE]
        /\ gNotified' = NotifySubscribers(s, recorded)
        /\ currentChanges' = [currentChanges EXCEPT ![s] = EmptyObj]
        /\ gEvals' = <<>>
        /\ gLast' = [op |-> op, key |-> NoKey, value |-> 0,
                     changed |-> {p \in DOMAIN partialState : gState[p] # partialState[p]},
                     had |-> DOMAIN globalGetterCache, known |-> FALSE]
        /\ UNCHANGED <<globalGetterCache, globalPropertyToGetters,
                       globalGetterToDependencies, globalActiveGetters, gStack>>

GPatch(s, partialState) == PatchOf(s, partialState, "patch")

\* $reset: this.$patch(options.state())
GReset(s) == PatchOf(s, GInitialState(s, FreshUser(gState)), "reset")

\* the action wrapper, up to action.apply
GCall(s) ==
    /\ Len(gStack) < MaxNest
    /\ gStack' = Append(gStack, s)
    /\ gIsUpdating' = [gIsUpdating EXCEPT ![s] = TRUE]
    /\ gEvals' = <<>>
    /\ gNotified' = <<>>
    /\ gLast' = [op |-> "call", key |-> NoKey, value |-> 0, changed |-> {},
                 had |-> DOMAIN globalGetterCache, known |-> FALSE]
    /\ UNCHANGED <<gState, globalGetterCache, globalPropertyToGetters,
                   globalGetterToDependencies, globalActiveGetters, currentChanges>>

\* the action body returned a value that is no promise, or threw: notify()
GReturn ==
    /\ gStack # <<>>
    /\ LET s == Top(gStack)
       IN  /\ gIsUpdating' = [gIsUpdating EXCEPT ![s] = FALSE]
           /\ gNotified' = NotifySubscribers(s, currentChanges[s])
           /\ currentChanges' = [currentChanges EXCEPT ![s] = EmptyObj]
    /\ gStack' = Pop(gStack)
    /\ gEvals' = <<>>
    /\ gLast' = [op |-> "return", key |-> NoKey, value |-> 0, changed |-> {},
                 had |-> DOMAIN globalGetterCache, known |-> FALSE]
    /\ UNCHANGED <<gState, globalGetterCache, globalPropertyToGetters,
                   globalGetterToDependencies, globalActiveGetters>>

\* ===================================================================
\*  The registries of store instances
\*  (storeInstances of src/src/FCStore/defineStore.ts and of src/unnamed/part_001)
\* ===================================================================

Ids == {"counter", "user"}

\* no entry in a registry
None == 0

VARIABLES
    gStoreInstances,   \* storeInstances of the getter-caching store: id -> useStore
    tStoreInstances,   \* storeInstances of the transactional store: id -> useStore
    proxyOf,           \* the storeProxy each useStore created so far closes over (.get())
    returned,          \* per registry and id, the useStore values defineStore returned
                       \* since the registry was last cleared
    rLast              \* the last registry operation

rvars == <<gStoreInstances, tStoreInstances, proxyOf, returned, rLast>>

RInit ==
    /\ gStoreInstances = [id \in Ids |-> None]
    /\ tStoreInstances = [id \in Ids |-> None]
    /\ proxyOf = EmptyObj
    /\ returned = [k \in {"G", "T"} |-> [id \in Ids |-> {}]]
    /\ rLast = [op |-> "init", kind |-> "G", id |-> NoKey, handle |-> None, hit |-> FALSE]

\* a defineStore that never finds the id registered
HasNever(instances, id) == FALSE

\* storeInstances.has(id)
Has(instances, id) == instances[id] # None

\* the useStore a defineStore call that creates a store builds: a new function object
\* whose get() returns the storeProxy built by the same call
NewHandle == Cardinality(DOMAIN proxyOf) + 1
NewProxy(handle) == 0 - handle

\* defineStore of the getter-caching store
GDefineStore(id) ==
    /\ IF Has(gStoreInstances, id)
       THEN /\ returned' = [returned EXCEPT !["G"][id] = @ \cup {gStoreInstances[id]}]
            /\ rLast' = [op |-> "defineStore", kind |-> "G", id |-> id,
                         handle |-> gStoreInstances[id], hit |-> TRUE]
            /\ UNCHANGED <<gStoreInstances, proxyOf>>
       ELSE /\ NewHandle <= MaxHandles
            /\ proxyOf' = Put(proxyOf, NewHandle, NewProxy(NewHandle))
            /\ gStoreInstances' = [gStoreInstances EXCEPT ![id] = NewHandle]
            /\ returned' = [returned EXCEPT !["G"][id] = @ \cup {NewHandle}]
            /\ rLast' = [op |-> "defineStore", kind |-> "G", id |-> id,
                         handle |-> NewHandle, hit |-> FALSE]
    /\ UNCHANGED tStoreInstances

\* defineStore of the transactional store; for a registered id it is handleHMR, which
\* returns the registered useStore (the options are those the store was built with, so
\* no field is added to the state)
TDefineStore(id) ==
    /\ IF Has(tStoreInstances, id)
       THEN /\ returned' = [returned EXCEPT !["T"][id] = @ \cup {tStoreInstances[id]}]
            /\ rLast' = [op |-> "defineStore", kind |-> "T", id |-> id,
                         handle |-> tStoreInstances[id], hit |-> TRUE]
            /\ UNCHANGED <<tStoreInstances, proxyOf>>
       ELSE /\ NewHandle <= MaxHandles
            /\ proxyOf' = Put(proxyOf, NewHandle, NewProxy(NewHandle))
            /\ tStoreInstances' = [tStoreInstances EXCEPT ![id] = NewHandle]
            /\ returned' = [returned EXCEPT !["T"][id] = @ \cup {NewHandle}]
            /\ rLast' = [op |-> "defineStore", kind |-> "T", id |-> id,
                         handle |-> NewHandle, hit |-> FALSE]
    /\ UNCHANGED gStoreInstances

\* the hot-update callbacks of the getter-caching store: storeInstances and the three
\* global maps are cleared
GClear ==
    /\ gStoreInstances' = [id \in Ids |-> None]
    /\ globalGetterCache' = EmptyObj
    /\ globalPropertyToGetters' = [p \in PropKeys |-> {}]
    /\ globalGetterToDependencies' = [k \in GetterKeys |-> {}]
    /\ returned' = [returned EXCEPT !["G"] = [id \in Ids |-> {}]]
    /\ rLast' = [op |-> "clear", kind |-> "G", id |-> NoKey, handle |-> None, hit |-> FALSE]
    /\ UNCHANGED <<tStoreInstances, proxyOf, gState, globalActiveGetters, gIsUpdating,
                   currentChanges, gStack, gEvals, gNotified, gLast>>

\* module.hot.dispose of the transactional store: storeInstances.clear()
TClear ==
    /\ tStoreInstances' = [id \in Ids |-> None]
    /\ returned' = [returned EXCEPT !["T"] = [id \in Ids |-> {}]]
    /\ rLast' = [op |-> "clear", kind |-> "T", id |-> NoKey, handle |-> None, hit |-> FALSE]
    /\ UNCHANGED <<gStoreInstances, proxyOf>>

\* ===================================================================
\*  Property reads through the store proxies
\* ===================================================================

VARIABLES
    got   \* the last property read: the store, the property, whether the state had it,
          \* the value returned and the error raised to the reader

avars == <<got>>

NoRead == [op |-> "none", store |-> "-", prop |-> "-", known |-> FALSE,
           value |-> Undefined, error |-> NoError]

AInit == got = NoRead

\* storeProxy.get of the transactional store, for a prop that is no member of the store
\* object: returns ctx.state[prop], which is undefined for a prop the state lacks
TGet(prop) ==
    /\ got' = [op |-> "get", store |-> "T", prop |-> prop,
               known |-> prop \in DOMAIN tState,
               value |-> IF prop \in DOMAIN tState THEN tState[prop] ELSE Undefined,
               error |-> NoError]
    /\ UNCHANGED tvars

\* storeProxy.get of the getter-caching store, for a prop that is no member of the store
\* object, read by a caller outside every getter function: Reflect.get on
\* depTrackingProxy, which records the read when globalActiveGetters is not empty (the
\* programs modelled read a property that is no field only while it is empty)
GGet(propKey) ==
    LET G == IF propKey \in PropKeys THEN TrackRead(Globals, propKey) ELSE Globals
    IN  /\ gStack = <<>>
        /\ got' = [op |-> "get", store |-> "G", prop |-> propKey,
                   known |-> propKey \in DOMAIN gState,
                   value |-> IF propKey \in DOMAIN gState THEN gState[propKey]
                             ELSE Undefined,
                   error |-> NoError]
        /\ globalPropertyToGetters' = G.p2g
        /\ globalGetterToDependencies' = G.deps
        /\ UNCHANGED <<gState, globalGetterCache, globalActiveGetters, gIsUpdating,
                       currentChanges, gStack, gEvals, gNotified, gLast>>

\* ===================================================================
\*  Construction from storage; the legacy store
\*  (src/src/stores/counterStore.ts)
\* ===================================================================

\* the names of the members of the legacy store object that a state key must not have
ReservedKeys == {"$id", "$state", "$patch", "$reset", "$subscribe"}

\* the results of options.state() of the stores defined: one of them has a reserved key
Initializers == {TInitialState(0 - 1), [k \in {"count", "$reset"} |-> 0]}

\* the items the storage may hold under the store's key: none, a full snapshot, text
\* that is no JSON, a snapshot without the obj field, a snapshot with a reserved key
LoadItems == StoredItems \cup {Malformed, [k \in {"count"} |-> 1],
                               [k \in {"count", "$patch"} |-> 1]}

\* defineStore of the getter-caching store, restore in try/catch:
\* Object.assign(state, storedState ? deserialize(storedState) : {})
GLoaded(initial, item, fails) ==
    IF LoadThrows(item, fails) THEN initial
    ELSE Assign(initial, IF item = NoItem THEN EmptyObj ELSE Deserialize(item))

\* defineStore of the legacy store, restore in try/catch:
\* storedState ? { ...options.state(), ...deserialized } : options.state()
LLoaded(initial, item, fails) ==
    IF LoadThrows(item, fails) THEN initial
    ELSE IF item = NoItem THEN initial ELSE Assign(initial, Deserialize(item))

\* a legacy store that accepts every state key
CollidesNever(state) == FALSE

\* defineStore of the legacy store: a key of the initial state is a reserved key
Collides(state) == DOMAIN state \cap ReservedKeys # {}

VARIABLES
    lStoreInstances,  \* storeInstances of the legacy store: id -> storeProxy
    lCount,           \* the number of legacy stores constructed so far
    lStorage,         \* the item the storage holds under prefix + id
    lLast             \* the last construction: the store kind, the initializer's result,
                      \* the item found, whether getItem threw, the initial state built,
                      \* whether console.error was called, whether defineStore threw,
                      \* whether the id was found registered

lvars == <<lStoreInstances, lCount, lStorage, lLast>>

NoLoad == [op |-> "init", kind |-> "-", id |-> NoKey, initial |-> EmptyObj,
           item |-> NoItem, fails |-> FALSE, state |-> EmptyObj, logged |-> FALSE,
           threw |-> FALSE, hit |-> FALSE]

LInit ==
    /\ lStoreInstances = [id \in Ids |-> None]
    /\ lCount = 0
    /\ lStorage = NoItem
    /\ lLast = NoLoad

\* another run of the application, or another tab, leaves an item in the storage
LSetItem(item) ==
    /\ lStorage' = item
    /\ lLast' = [NoLoad EXCEPT !.op = "setItem", !.item = item]
    /\ UNCHANGED <<lStoreInstances, lCount>>

\* the restore of the transactional ("T") and of the getter-caching ("G") store, for a
\* store defined with persist: true whose id is not registered; both always construct
Load(kind, initial, fails) ==
    /\ lLast' = [op |-> "load", kind |-> kind, id |-> NoKey, initial |-> initial,
                 item |-> lStorage, fails |-> fails,
                 state |-> IF kind = "T" THEN TLoaded(initial, lStorage, fails)
                           ELSE GLoaded(initial, lStorage, fails),
                 logged |-> LoadThrows(lStorage, fails), threw |-> FALSE, hit |-> FALSE]
    /\ UNCHANGED <<lStoreInstances, lCount, lStorage>>

\* defineStore of the legacy store with persist: true
LDefineStore(id, initial, fails) ==
    IF Has(lStoreInstances, id)
    THEN /\ lLast' = [NoLoad EXCEPT !.op = "defineStore", !.kind = "L", !.id = id,
                                    !.hit = TRUE]
         /\ UNCHANGED <<lStoreInstances, lCount, lStorage>>
    ELSE LET state == LLoaded(initial, lStorage, fails)
         IN  /\ lCount < MaxHandles
             /\ lLast' = [op |-> "defineStore", kind |-> "L", id |-> id,
                          initial |-> initial, item |-> lStorage, fails |-> fails,
                          state |-> state, logged |-> LoadThrows(lStorage, fails),
                          threw |-> Collides(state), hit |-> FALSE]
             /\ IF Collides(state)
                THEN UNCHANGED <<lStoreInstances, lCount>>
                ELSE /\ lStoreInstances' = [lStoreInstances EXCEPT ![id] = lCount + 1]
                     /\ lCount' = lCount + 1
             /\ UNCHANGED lStorage

\* module.hot.dispose of the legacy store: storeInstances.clear()
LClear ==
    /\ lStoreInstances' = [id \in Ids |-> None]
    /\ lLast' = [NoLoad EXCEPT !.op = "clear"]
    /\ UNCHANGED <<lCount, lStorage>>

\* ===================================================================
\*  Specifications
\* ===================================================================

vars == <<tvars, fvars, gvars, rvars, avars, lvars, fvars>>

Init == TInit /\ GInit /\ RInit /\ AInit /\ LInit /\ faults = FALSE

NextT ==
    \/ (\E f \in TProps : \E v \in TValues(f) : TWrite(f, v)) /\ UNCHANGED <<gvars, rvars, avars, lvars, fvars>>
    \/ (\E p \in TPatchArgs : TPatch(p)) /\ UNCHANGED <<gvars, rvars, avars, lvars, fvars>>
    \/ (\E ref \in TValues("obj") : TReset(ref)) /\ UNCHANGED <<gvars, rvars, avars, lvars, fvars>>
    \/ (\E l \in Listeners : TSubscribe(l)) /\ UNCHANGED <<gvars, rvars, avars, lvars, fvars>>
    \/ (\E l \in Listeners : TUnsubscribe(l)) /\ UNCHANGED <<gvars, rvars, avars, lvars, fvars>>
    \/ TCall /\ UNCHANGED <<gvars, rvars, avars, lvars, fvars>>
    \/ TReturn /\ UNCHANGED <<gvars, rvars, avars, lvars, fvars>>
    \/ TReturnPromise /\ UNCHANGED <<gvars, rvars, avars, lvars, fvars>>
    \/ (\E e \in Errors : TThrow(e)) /\ UNCHANGED <<gvars, rvars, avars, lvars, fvars>>
    \/ (\E b \in BOOLEAN : \E e \in Errors \cup {NoError} : TSettle(b, e))
          /\ UNCHANGED <<gvars, rvars, avars, lvars, fvars>>
    \/ TConstruct /\ UNCHANGED <<gvars, rvars, avars, lvars, fvars>>

NextG ==
    \/ (\E k \in GetterKeys : GRead(k)) /\ UNCHANGED <<tvars, rvars, avars, lvars, fvars>>
    \/ (\E p \in PropKeys : \E v \in GValues(p) : GWrite(p, v)) /\ UNCHANGED <<tvars, rvars, avars, lvars, fvars>>
    \/ (\E s \in GStores : \E q \in GPatchArgs(s) : GPatch(s, q)) /\ UNCHANGED <<tvars, rvars, avars, lvars, fvars>>
    \/ (\E s \in GStores : GReset(s)) /\ UNCHANGED <<tvars, rvars, avars, lvars, fvars>>
    \/ (\E s \in GStores : GCall(s)) /\ UNCHANGED <<tvars, rvars, avars, lvars, fvars>>
    \/ GReturn /\ UNCHANGED <<tvars, rvars, avars, lvars, fvars>>

NextR ==
    \/ (\E id \in Ids : GDefineStore(id)) /\ UNCHANGED <<tvars, gvars, avars, lvars, fvars>>
    \/ (\E id \in Ids : TDefineStore(id)) /\ UNCHANGED <<tvars, gvars, avars, lvars, fvars>>
    \/ GClear /\ UNCHANGED <<tvars, avars, lvars, fvars>>
    \/ TClear /\ UNCHANGED <<tvars, gvars, avars, lvars, fvars>>

\* the transactional store
SpecT == Init /\ [][NextT]_vars

\* the getter-caching store
SpecG == Init /\ [][NextG]_vars

\* the registries of the two stores
SpecR == Init /\ [][NextR]_vars

\* the transactional store defined with persist: true
InitPersist == TInitPersist /\ GInit /\ RInit /\ AInit /\ LInit /\ faults = FALSE

SpecP == InitPersist /\ [][NextT]_vars

\* a program that uses one of the two stores, defined with persist: true over an empty
\* storage, and also assigns to properties the store does not have (the stores share no
\* state, so their operations are not interleaved)
InitEither == TInitWith(TRUE, {NoItem}) /\ GInit /\ RInit /\ AInit /\ LInit /\ faults = FALSE

GWriteUnknown ==
    (\E p \in UnknownKeys : \E v \in GValues(p) : GWrite(p, v)) /\ UNCHANGED <<tvars, rvars, avars, lvars, fvars>>

NextEither ==
    \/ gLast.op = "init" /\ NextT
    \/ last.op = "init" /\ NextG
    \/ last.op = "init" /\ GWriteUnknown

SpecEither == InitEither /\ [][NextEither]_vars

\* a program that assigns to and reads properties of both stores, outside actions
NextA ==
    \/ (\E f \in TProps : \E v \in TValues(f) : TWrite(f, v)) /\ UNCHANGED <<gvars, rvars, avars, lvars, fvars>>
    \/ (\E p \in PropKeys : \E v \in GValues(p) : GWrite(p, v)) /\ UNCHANGED <<tvars, rvars, avars, lvars, fvars>>
    \/ (\E f \in TProps : TGet(f)) /\ UNCHANGED <<gvars, rvars, lvars, fvars>>
    \/ (\E p \in PropKeys \cup UnknownKeys : GGet(p)) /\ UNCHANGED <<tvars, rvars, lvars, fvars>>

SpecA == InitPersist /\ [][NextA]_vars

\* stores defined with persist: true over a storage that other runs write to
NextL ==
    \/ (\E item \in LoadItems : LSetItem(item)) /\ UNCHANGED <<tvars, gvars, rvars, avars, fvars>>
    \/ (\E kind \in {"T", "G"} : \E initial \in Initializers : \E fails \in BOOLEAN :
           Load(kind, initial, fails)) /\ UNCHANGED <<tvars, gvars, rvars, avars, fvars>>
    \/ (\E id \in Ids : \E initial \in Initializers : \E fails \in BOOLEAN :
           LDefineStore(id, initial, fails)) /\ UNCHANGED <<tvars, gvars, rvars, avars, fvars>>
    \/ LClear /\ UNCHANGED <<tvars, gvars, rvars, avars, fvars>>

SpecL == Init /\ [][NextL]_vars

\* the transactional store with persist: true over a storage that may throw on a write;
\* synchronous use
InitF == TInitPersist /\ faults = TRUE /\ GInit /\ RInit /\ AInit /\ LInit

NextF ==
    \/ (\E f \in TProps : \E v \in TValues(f) : TWrite(f, v))
          /\ UNCHANGED <<gvars, rvars, avars, lvars, fvars>>
    \/ (\E p \in TPatchArgs : TPatch(p)) /\ UNCHANGED <<gvars, rvars, avars, lvars, fvars>>
    \/ (\E ref \in TValues("obj") : TReset(ref))
          /\ UNCHANGED <<gvars, rvars, avars, lvars, fvars>>
    \/ (\E l \in Listeners : TSubscribe(l)) /\ UNCHANGED <<gvars, rvars, avars, lvars, fvars>>
    \/ TCall /\ UNCHANGED <<gvars, rvars, avars, lvars, fvars>>
    \/ TReturn /\ UNCHANGED <<gvars, rvars, avars, lvars, fvars>>

SpecF == InitF /\ [][NextF]_vars

\* the transactional store with two listeners that come and go; synchronous use
NextS ==
    \/ (\E l \in TwoListeners : TSubscribe(l))
          /\ UNCHANGED <<gvars, rvars, avars, lvars, fvars>>
    \/ (\E l \in TwoListeners : TUnsubscribe(l))
          /\ UNCHANGED <<gvars, rvars, avars, lvars, fvars>>
    \/ (\E f \in TProps : \E v \in TValues(f) : TWrite(f, v))
          /\ UNCHANGED <<gvars, rvars, avars, lvars, fvars>>
    \/ (\E p \in TPatchArgs : TPatch(p)) /\ UNCHANGED <<gvars, rvars, avars, lvars, fvars>>
    \/ TCall /\ UNCHANGED <<gvars, rvars, avars, lvars, fvars>>
    \/ TReturn /\ UNCHANGED <<gvars, rvars, avars, lvars, fvars>>

SpecS == Init /\ [][NextS]_vars

\* the getter-caching stores, store "user" defined with the getters banner and summary
\* besides greeting; the program reads the getters and assigns to the fields
InitC ==
    /\ TInit /\ GInitWith(GetterKeys \cup ExtraGetters)
    /\ RInit /\ AInit /\ LInit /\ faults = FALSE

NextC ==
    \/ (\E k \in GetterKeys \cup ExtraGetters : GRead(k))
          /\ UNCHANGED <<tvars, rvars, avars, lvars, fvars>>
    \/ (\E p \in PropKeys : \E v \in GValues(p) : GWrite(p, v))
          /\ UNCHANGED <<tvars, rvars, avars, lvars, fvars>>

SpecC == InitC /\ [][NextC]_vars

\* a program with a listener and two async actions of the transactional store that
\* overlap: one is invoked while no transaction is open and writes count, the other is
\* invoked while a transaction is open and writes obj; each writes in its body and after
\* its await points, and the two promises settle in either order
ByOuter == stack = <<[prev |-> FALSE]>> \/ (stack = <<>> /\ pending.outer > 0)
ByNested == stack = <<[prev |-> TRUE]>> \/ (stack = <<>> /\ pending.nested > 0)

NextO ==
    \/ (stack = <<>> /\ (IF isUpdating THEN pending.nested ELSE pending.outer) = 0 /\ TCall)
          /\ UNCHANGED <<gvars, rvars, avars, lvars, fvars>>
    \/ TReturnsPromise(MaxOverlap) /\ UNCHANGED <<gvars, rvars, avars, lvars, fvars>>
    \/ (ByOuter /\ \E v \in TValues("count") : TWrite("count", v))
          /\ UNCHANGED <<gvars, rvars, avars, lvars, fvars>>
    \/ (ByNested /\ \E v \in TValues("obj") : TWrite("obj", v))
          /\ UNCHANGED <<gvars, rvars, avars, lvars, fvars>>
    \/ (\E b \in BOOLEAN : \E e \in Errors \cup {NoError} : TSettle(b, e))
          /\ UNCHANGED <<gvars, rvars, avars, lvars, fvars>>
    \/ (\E l \in Listeners : TSubscribe(l)) /\ UNCHANGED <<gvars, rvars, avars, lvars, fvars>>

SpecO == Init /\ [][NextO]_vars

\* a program with a listener that calls sync and async actions of the transactional
\* store, defined with persist: true, one at a time from the top level, and writes and
\* patches inside and outside them. Every action body comes to an end, and the promise
\* of an async action that is pending again and again is settled.
Finishes ==
    (TReturn \/ TReturnPromise \/ \E e \in Errors : TThrow(e))
       /\ UNCHANGED <<gvars, rvars, avars, lvars, fvars>>

Settles ==
    (\E e \in Errors \cup {NoError} : TSettle(FALSE, e))
       /\ UNCHANGED <<gvars, rvars, avars, lvars, fvars>>

NextV ==
    \/ (\E f \in TFields : \E v \in TValues(f) : TWrite(f, v))
          /\ UNCHANGED <<gvars, rvars, avars, lvars, fvars>>
    \/ (\E p \in TPatchArgs : TPatch(p)) /\ UNCHANGED <<gvars, rvars, avars, lvars, fvars>>
    \/ (\E l \in Listeners : TSubscribe(l)) /\ UNCHANGED <<gvars, rvars, avars, lvars, fvars>>
    \/ (stack = <<>> /\ TCall) /\ UNCHANGED <<gvars, rvars, avars, lvars, fvars>>
    \/ Finishes
    \/ Settles

\* the partial records of a program that also names "extra" in a $patch
TPatchArgsAny ==
    {p \in UNION {[S -> 0..MaxCount \cup {-1, -2}] : S \in SUBSET TProps} :
        \A f \in DOMAIN p : p[f] \in TValues(f)}

\* a program that uses the property "extra" in direct writes and in $patch records, on
\* the transactional store defined with persist: true; synchronous use
NextK ==
    \/ (\E f \in TProps : \E v \in TValues(f) : TWrite(f, v))
          /\ UNCHANGED <<gvars, rvars, avars, lvars, fvars>>
    \/ (\E p \in TPatchArgsAny : TPatch(p)) /\ UNCHANGED <<gvars, rvars, avars, lvars, fvars>>
    \/ (\E ref \in TValues("obj") : TReset(ref))
          /\ UNCHANGED <<gvars, rvars, avars, lvars, fvars>>
    \/ TCall /\ UNCHANGED <<gvars, rvars, avars, lvars, fvars>>
    \/ TReturn /\ UNCHANGED <<gvars, rvars, avars, lvars, fvars>>

SpecK == InitPersist /\ [][NextK]_vars

\* the getter-caching stores, store "user" defined with the getter logSize besides
\* greeting; the program reads getters and fields, catching what a getter throws, and
\* assigns to the fields
InitX ==
    /\ TInit /\ GInitWith(GetterKeys \cup ThrowingGetters)
    /\ RInit /\ AInit /\ LInit /\ faults = FALSE

NextX ==
    \/ (\E k \in GetterKeys : GRead(k)) /\ UNCHANGED <<tvars, rvars, avars, lvars, fvars>>
    \/ GReadLogSize /\ UNCHANGED <<tvars, rvars, avars, lvars, fvars>>
    \/ (\E p \in PropKeys : \E v \in GValues(p) : GWrite(p, v))
          /\ UNCHANGED <<tvars, rvars, avars, lvars, fvars>>
    \/ (\E p \in PropKeys : GGet(p)) /\ UNCHANGED <<tvars, rvars, lvars, fvars>>

SpecX == InitX /\ [][NextX]_vars

SpecV == InitEither /\ [][NextV]_vars /\ WF_vars(Finishes) /\ SF_vars(Settles)

\* ===================================================================
\*  Properties of the registries
\* ===================================================================

\* the registry a defineStore call of the given store consults
Registry(kind) == IF kind = "G" THEN gStoreInstances ELSE tStoreInstances

\* C1: in the getter-caching store and in the transactional store alike, as long as the
\* registry is not cleared, all defineStore calls with one id return one and the same
\* useStore, whose get() gives one and the same store instance, and that useStore is
\* the single entry the registry holds for the id.
C1_SameIdSameInstance ==
    /\ \A kind \in {"G", "T"} : \A id \in Ids :
          /\ Cardinality(returned[kind][id]) <= 1
          /\ Cardinality({proxyOf[h] : h \in returned[kind][id]}) <= 1
          /\ returned[kind][id] \subseteq {Registry(kind)[id]}
    /\ rLast.op = "defineStore" => Registry(rLast.kind)[rLast.id] = rLast.handle

\* a second defineStore call of the transactional store for an id, while both ids are
\* registered in the getter-caching store
C1_Witness ==
    /\ rLast.op = "defineStore" /\ rLast.kind = "T" /\ rLast.hit
    /\ \A id \in Ids : returned["G"][id] # {}

\* ===================================================================
\*  Properties of the getter-caching store
\* ===================================================================

\* the fields a getter reads, directly or through the getter it reads
ReadsOf(getterKey) ==
    IF getterKey = "counter/doubledCount" THEN {"counter/count"}
    ELSE {"user/user", "counter/count"}

\* the value a getter has in a state
ValueIn(getterKey, state) ==
    IF getterKey = "counter/doubledCount" THEN state["counter/count"] * 2
    ELSE Greeting(NameOf(state["user/user"]), state["counter/count"] * 2)

\* how many times the last step invoked the function of a getter
Invocations(getterKey) == Cardinality({i \in 1..Len(gEvals) : gEvals[i] = getterKey})

\* C2: for a getter D that has been read, an effective write to a field D read removes
\* D's cache entry, and the next read of D invokes the getter once and returns the value
\* of the new state; a write to a field D never read, and every step that is no write,
\* leaves the entry, and a read of a cached D invokes no getter.
C2_WriteInvalidatesGetter ==
    /\ (gLast.op = "write" /\ gLast.changed # {}) =>
          \A D \in gLast.had : D \in DOMAIN globalGetterCache <=> gLast.key \notin ReadsOf(D)
    /\ (gLast.op # "write" \/ gLast.changed = {}) => gLast.had \subseteq DOMAIN globalGetterCache
    /\ (gLast.op = "read" /\ gLast.key \in gLast.had) => gEvals = <<>>
    /\ (gLast.op = "read" /\ gLast.known /\ gLast.key \notin gLast.had) =>
          /\ Invocations(gLast.key) = 1
          /\ gLast.value = ValueIn(gLast.key, gState)

\* C3: greeting (store "user") reads doubledCount (store "counter"), which reads count.
\* Whether doubledCount was computed inside greeting or was already cached, an
\* effective write to count removes both cache entries, and afterwards each of the two
\* is computed once, by the first read that needs it, and never while it is cached.
C3_CrossStoreChain ==
    /\ (gLast.op = "write" /\ gLast.key = "counter/count" /\ gLast.changed # {}) =>
          DOMAIN globalGetterCache = {}
    /\ gLast.op = "read" =>
          /\ gLast.key \in DOMAIN globalGetterCache
          /\ \A D \in GetterKeys :
                Invocations(D) =
                   IF D \notin gLast.had /\
                      (D = gLast.key \/ (gLast.key = "user/greeting" /\
                                         "user/greeting" \notin gLast.had))
                   THEN 1 ELSE 0
    /\ gLast.op # "read" => gEvals = <<>>

\* count is written while both getters are cached and greeting was computed when
\* doubledCount was cached already (it got count from the cached getter's dependencies)
C3_Witness ==
    /\ gLast.op = "write" /\ gLast.key = "counter/count" /\ gLast.changed # {}
    /\ gLast.had = GetterKeys
    /\ "counter/count" \in globalGetterToDependencies["user/greeting"]

\* C4: when $patch or $reset changes the value of a field, every cached getter that
\* read the field is evicted, and a read of a getter after the patch returns the value
\* of the patched state.
C4_PatchInvalidatesGetter ==
    /\ gLast.op \in {"patch", "reset"} =>
          \A F \in gLast.changed : \A D \in DOMAIN globalGetterCache : F \notin ReadsOf(D)
    /\ gLast.op = "read" => gLast.value = ValueIn(gLast.key, gState)

\* ===================================================================
\*  Properties of the transactional store
\* ===================================================================

\* every listener is invoked once by the last step, with a delta over exactly the keys K
NotifiedOnceWith(K) ==
    /\ Len(notified) = Len(subscribers)
    /\ \A i \in 1..Len(notified) :
          /\ notified[i].listener = subscribers[i]
          /\ DOMAIN notified[i].delta = K

\* C5: a synchronous outermost action whose only changes are effective direct writes to
\* k >= 1 fields (no $reset, no throw) invokes each subscriber exactly once, when it
\* returns, with a delta over exactly those k fields; the writes themselves invoke nobody.
C5_BatchedAction ==
    /\ (last.op = "return" /\ last.outer /\ ~win.reset /\ win.patched = {}
            /\ DOMAIN win.vals # {})
         => (NotifiedOnceWith(DOMAIN win.vals) /\ ~win.noted)
    /\ (last.op = "write" /\ last.locked) => notified = <<>>

C5_Witness ==
    /\ last.op = "return" /\ last.outer /\ ~win.reset /\ win.patched = {}
    /\ DOMAIN win.vals = TFields
    /\ Len(notified) = 1

\* C6: the return of a nested action call neither releases the lock nor notifies; exactly
\* one notification is delivered, when the outermost call returns, and its delta holds
\* the fields written by the inner and the outer calls.
C6_NestedShareTransaction ==
    /\ (last.op = "return" /\ ~last.outer) => (isUpdating /\ notified = <<>>)
    /\ (last.op = "return" /\ last.outer /\ win.nested /\ DOMAIN win.vals # {})
         => (NotifiedOnceWith(DOMAIN win.vals) /\ ~win.noted)

\* C7: no listener is invoked while the update lock is held.
C7_NoNotifyWhileLocked ==
    \A i \in 1..Len(notified) : ~notified[i].locked

\* C8: an outermost action that returns a promise invokes no listener at invocation time
\* or while the promise is pending, and invokes each exactly once when the promise
\* settles, provided a change was accumulated.
C8_AsyncNotifiesAtSettle ==
    /\ (last.op = "returnPromise" /\ last.outer) => ~win.noted
    /\ pending.outer > 0 => notified = <<>>
    /\ (last.op = "settle" /\ last.outer /\ DOMAIN win.vals # {})
         => (Len(notified) = Len(subscribers) /\ ~win.noted)

\* C9: once an outermost async action has returned its promise, every field reads as it
\* did before the invocation, unless the action changed it through $patch.
C9_PendingReadsOld ==
    (last.op = "returnPromise" /\ last.outer /\ ~win.reset)
      => \A f \in TFields : f \notin win.patched => tState[f] = batchOldState[f]

\* C10: while the transaction of an async action is open, a direct write, a $patch or a
\* synchronous action produces no notification of its own, and the notification at the
\* close carries, for each field, the value of the last write of the window.
C10_WindowMerges ==
    /\ (pending.outer > 0
          /\ (last.op \in {"write", "patch", "call", "return", "throw"}
                \/ (last.op = "reset" /\ stack # <<>>)))
         => notified = <<>>
    /\ (last.op = "settle" /\ last.outer)
         => \A i \in 1..Len(notified) : notified[i].delta = win.vals

\* no action invocation is running or waiting for its promise
Idle == stack = <<>> /\ pending.outer = 0 /\ pending.nested = 0

\* C11: whatever the invocations did (returned, threw, rejected; nested, overlapping),
\* when none is in flight the lock is released, so an effective direct write made then
\* invokes every subscriber at once; and the error a caller gets from a failed
\* invocation is the error the action body raised.
C11_LockReleasedWhenIdle ==
    /\ [](Idle => ~isUpdating)
    /\ [](last.op \in {"throw", "settle"} => outcome.error = outcome.raised)
    /\ [][\A f \in TFields : \A v \in TValues(f) :
            (last'.op = "write" /\ Idle /\ tState[f] # v /\ TWrite(f, v)) =>
               /\ Len(notified') = Len(subscribers)
               /\ \A i \in 1..Len(notified') : notified'[i].delta = Put(EmptyObj, f, v)]_vars

\* an outermost action has thrown while a nested one had returned before, a listener
\* is subscribed, and nothing is in flight any more
C11_Witness ==
    /\ last.op = "throw" /\ last.outer /\ win.nested
    /\ Idle /\ subscribers # <<>>
    /\ outcome.error = "e2"

\* C12: when an outermost action has made an effective write to a field and then fails,
\* by a synchronous throw or by the rejection of its promise, every subscriber is
\* invoked with a delta that contains the field, and the state is saved to storage.
C12_FailedActionFlushes ==
    (last.op \in {"throw", "settle"} /\ last.outer /\ outcome.raised # NoError
        /\ DOMAIN win.vals # {}) =>
       /\ Len(notified) = Len(subscribers)
       /\ \A i \in 1..Len(notified) : DOMAIN win.vals \subseteq DOMAIN notified[i].delta
       /\ outcome.saved

\* C13: a transaction without effective change invokes no subscriber and writes nothing
\* to storage: a direct write of the primitive value the field holds, a $patch whose
\* fields all hold the primitive values given, and an outermost action that ends
\* (returns, settles, throws or rejects) without an effective write or patch and
\* without a $reset in its window.
C13_NoChangeNoNotification ==
    /\ [][(last'.op = "write" /\ tState' = tState) => \A f \in TProps : \A v \in TValues(f) :
            (f \in DOMAIN tState /\ tState[f] = v /\ v >= 0 /\ TWrite(f, v)) =>
               (notified' = <<>> /\ ~outcome'.saved /\ storage' = storage)]_vars
    /\ [][(last'.op = "patch" /\ tState' = tState) => \A p \in TPatchArgs :
            ((\A k \in DOMAIN p : k \in DOMAIN tState /\ tState[k] = p[k] /\ p[k] >= 0)
                /\ TPatch(p)) =>
               (notified' = <<>> /\ ~outcome'.saved /\ storage' = storage)]_vars
    /\ []((last.op \in {"return", "settle", "throw"} /\ last.outer
             /\ DOMAIN win.vals = {} /\ ~win.reset) =>
            (notified = <<>> /\ ~outcome.saved))

\* the promise of an outermost action that wrote nothing is rejected, while a listener
\* is subscribed and storage holds an earlier snapshot
C13_Witness ==
    /\ last.op = "settle" /\ last.outer /\ outcome.raised # NoError
    /\ DOMAIN win.vals = {} /\ ~win.reset
    /\ subscribers # <<>> /\ persist /\ storage # NoItem /\ storage # Serialize(TInitialState(0 - 1))

\* an object value is assigned to field obj: by a direct write, by a $patch
ObjectRefs == TValues("obj")

\* C14: a direct write or a $patch that assigns an object to a field is an effective
\* change even when the field holds that very object: outside a transaction every
\* subscriber is invoked at once with the field in the delta, inside one the field is
\* put into the accumulated delta and nobody is invoked.
C14_ObjectAlwaysChanged ==
    /\ [][last'.op = "write" => \A v \in ObjectRefs :
            TWrite("obj", v) =>
               IF isUpdating
               THEN /\ "obj" \in DOMAIN batchChanges' /\ batchChanges'["obj"] = v
                    /\ notified' = <<>>
               ELSE /\ Len(notified') = Len(subscribers)
                    /\ \A i \in 1..Len(notified') : notified'[i].delta = Put(EmptyObj, "obj", v)]_vars
    /\ [][last'.op = "patch" => \A p \in TPatchArgs :
            ("obj" \in DOMAIN p /\ TPatch(p)) =>
               IF isUpdating
               THEN /\ "obj" \in DOMAIN batchChanges' /\ batchChanges'["obj"] = p["obj"]
                    /\ notified' = <<>>
               ELSE /\ Len(notified') = Len(subscribers)
                    /\ \A i \in 1..Len(notified') :
                          /\ "obj" \in DOMAIN notified'[i].delta
                          /\ notified'[i].delta["obj"] = p["obj"]]_vars

\* outside a transaction a listener was invoked for field obj, which holds the object it
\* held before
C14_Witness ==
    /\ last.op \in {"write", "patch"} /\ ~last.locked
    /\ Len(notified) = 1
    /\ DOMAIN notified[1].delta = {"obj"}
    /\ notified[1].prev["obj"] = notified[1].state["obj"]

\* C15: in both stores a direct write to a property that is not in the state changes no
\* field, adds none, produces a warning, invokes no subscriber and writes nothing to
\* storage.
C15_UnknownWriteRefused ==
    /\ [][\A f \in TProps : \A v \in TValues(f) :
            (last'.op = "write" /\ f \notin DOMAIN tState /\ TWrite(f, v)) =>
               /\ tState' = tState
               /\ outcome'.warned
               /\ notified' = <<>>
               /\ ~outcome'.saved /\ storage' = storage]_vars
    /\ [][\A p \in PropKeys \cup UnknownKeys : \A v \in GValues(p) :
            (gLast'.op \in {"warn", "write"} /\ p \notin DOMAIN gState /\ GWrite(p, v)) =>
               /\ gState' = gState
               /\ gLast'.op = "warn"
               /\ gNotified' = <<>>
               /\ ~GSaved']_vars

\* the transactional store has refused a write while a listener is subscribed and a
\* snapshot is in storage
C15_Witness ==
    /\ last.op = "write" /\ outcome.warned
    /\ subscribers # <<>> /\ persist /\ storage # NoItem
    /\ "extra" \notin DOMAIN tState

\* C16: reading a property that the state does not have (and that is no member of the
\* store object) fails with an error raised to the reader, in both stores.
C16_UnknownReadFails ==
    (got.op = "get" /\ ~got.known) => got.error # NoError

\* the fields of a record whose assignment changes the state: a different value, or an
\* object
EffectiveIn(state, partial) ==
    {k \in DOMAIN partial : k \notin DOMAIN state \/ state[k] # partial[k] \/ partial[k] < 0}

C18_ResetRestoresInitializer ==
    /\ [](last.op = "reset" =>
            /\ DOMAIN tState = DOMAIN TInitialState(0 - 1)
            /\ \A f \in DOMAIN tState :
                  ~IsObject(TInitialState(0 - 1)[f]) => tState[f] = TInitialState(0 - 1)[f])
    /\ [][(last'.op = "reset" /\ \E ref \in TValues("obj") : TReset(ref)) =>
            \A f \in DOMAIN tState \ DOMAIN TInitialState(0 - 1) : f \notin DOMAIN tState']_vars

\* $reset has removed the field restored from storage and put a changed count back
C18_Witness ==
    /\ last.op = "reset"
    /\ Len(notified) = 1
    /\ "extra" \in DOMAIN notified[1].prev
    /\ notified[1].prev["count"] = 1
    /\ "extra" \notin DOMAIN tState /\ tState["count"] = 0

\* C19: a $reset called while the lock is free invokes no subscriber when no field is
\* removed and none differs from the initializer's result, and otherwise each subscriber
\* once, with previousSnapshot the state before the reset and a delta that maps every
\* removed field to undefined and every differing field to the initializer's value.
C19_ResetOneNotification ==
    [][\A ref \in ObjectRefs :
          (last'.op = "reset" /\ ~isUpdating /\ TReset(ref)) =>
             LET init == TInitialState(ref)
                 removed == DOMAIN tState \ DOMAIN init
                 differing == {k \in DOMAIN init : k \notin DOMAIN tState \/ tState[k] # init[k]}
             IN  IF removed \cup differing = {}
                 THEN notified' = <<>>
                 ELSE /\ Len(notified') = Len(subscribers)
                      /\ \A i \in 1..Len(notified') :
                            /\ notified'[i].listener = subscribers[i]
                            /\ notified'[i].prev = tState
                            /\ DOMAIN notified'[i].delta = removed \cup differing
                            /\ \A k \in removed : notified'[i].delta[k] = Undefined
                            /\ \A k \in differing : notified'[i].delta[k] = init[k]]_vars

\* a $reset outside a transaction has reported a removed field as undefined and a changed
\* count with the initializer's value, to the one listener
C19_Witness ==
    /\ last.op = "reset" /\ ~last.locked
    /\ Len(notified) = 1
    /\ "extra" \in DOMAIN notified[1].prev
    /\ notified[1].prev["count"] = 1
    /\ "extra" \in DOMAIN notified[1].delta /\ notified[1].delta["extra"] = Undefined
    /\ "count" \in DOMAIN notified[1].delta /\ notified[1].delta["count"] = 0

\* C20: with persist enabled, (a) a store constructed again over the same storage while no
\* invocation is in flight starts, for every field the old state also had, with the value
\* the old state had (objects compared by their serialized form); (b) a step that changes
\* a field and leaves no invocation in flight leaves the stored snapshot equal to the
\* state; (c) so does the close of a transaction in which a field was written or patched.
C20_PersistRoundTrip ==
    /\ [][(last'.op = "construct" /\ persist /\ TConstruct) =>
            \A f \in DOMAIN tState \cap DOMAIN tState' :
               Serialize(tState')[f] = Serialize(tState)[f]]_vars
    /\ [][(persist /\ Idle /\ Idle' /\ last'.op \in {"write", "patch", "reset"}
             /\ tState' # tState) => storage' = Serialize(tState')]_vars
    /\ []((persist /\ Idle /\ last.op \in {"return", "throw", "settle"}
             /\ DOMAIN win.vals # {}) => storage = Serialize(tState))

\* ===================================================================
\*  Properties of construction and of the legacy store
\* ===================================================================

\* a construction that ran the restore (the id was not registered)
Restored == lLast.op \in {"load", "defineStore"} /\ ~lLast.hit

C22_SaveFailureHarmless ==
    /\ [](outcome.logged =>
            /\ Len(notified) = Len(subscribers)
            /\ \A i \in 1..Len(notified) :
                  notified[i].listener = subscribers[i] /\ notified[i].state = tState
            /\ outcome.error = NoError
            /\ IF last.op = "return" THEN last.outer /\ ~isUpdating
               ELSE last.op \in {"write", "patch", "reset"} /\ isUpdating = last.locked)
    /\ [][(outcome'.logged /\ last'.op = "write") =>
            \A f \in TFields : \A v \in TValues(f) :
               TWrite(f, v) => (tState'[f] = v /\ isUpdating' = isUpdating
                                /\ storage' = storage)]_vars
    /\ [][(outcome'.logged /\ last'.op = "patch") =>
            \A p \in TPatchArgs :
               TPatch(p) => ((\A k \in DOMAIN p : tState'[k] = p[k])
                             /\ isUpdating' = isUpdating /\ storage' = storage)]_vars

\* the save failed after a direct write of count that the listener was told of, and the
\* storage still holds the older snapshot
C22_Witness ==
    /\ outcome.logged /\ last.op = "write" /\ ~last.locked
    /\ Len(notified) = 1 /\ DOMAIN notified[1].delta = {"count"}
    /\ tState["count"] = 1
    /\ storage # NoItem /\ storage # Serialize(tState)

\* a step that closes a transaction in which a field was written or patched: the end of
\* an outermost action, or an effective direct write, $patch or $reset made with the
\* lock free
ClosesWithChange ==
    \/ last.op \in {"return", "throw", "settle"} /\ last.outer /\ DOMAIN win.vals # {}
    \/ last.op \in {"write", "patch", "reset"} /\ ~last.locked
          /\ (subscribers # <<>> => notified # <<>>)

\* C23: with persist enabled, (a) a step that closes a transaction with a change writes
\* the storage, (b) a storage write stores the full current state and comes in a step
\* in which every subscriber was invoked, and (c) the storage is written by no other
\* step.
C23_OneSavePerTransaction ==
    persist =>
       /\ (last.op \in {"return", "throw", "settle"} /\ last.outer /\ DOMAIN win.vals # {})
             => outcome.saved
       /\ outcome.saved =>
             /\ storage = Serialize(tState)
             /\ Len(notified) = Len(subscribers)
             /\ ClosesWithChange

\* ===================================================================
\*  Properties of subscription in the transactional store
\* ===================================================================

\* the listeners registered in subs
Subscribed(subs) == {subs[i] : i \in 1..Len(subs)}

\* how many of the invocations in calls went to listener l
TimesInvoked(calls, l) == Cardinality({i \in 1..Len(calls) : calls[i].listener = l})

\* C24: a notification invokes every listener subscribed at that time exactly once and
\* no other; calling the handle of a listener removes that listener and leaves the
\* others registered; subscribing adds the listener and leaves the others; no other
\* operation changes who is subscribed.
C24_SubscribedInvokedOnce ==
    /\ [](notified # <<>> =>
            \A l \in TwoListeners :
               TimesInvoked(notified, l) = IF l \in Subscribed(subscribers) THEN 1 ELSE 0)
    /\ [][last'.op = "unsubscribe" => \A l \in TwoListeners :
            TUnsubscribe(l) => Subscribed(subscribers') = Subscribed(subscribers) \ {l}]_vars
    /\ [][last'.op = "subscribe" => \A l \in TwoListeners :
            TSubscribe(l) => Subscribed(subscribers') = Subscribed(subscribers) \cup {l}]_vars
    /\ [][last'.op \notin {"subscribe", "unsubscribe"} => subscribers' = subscribers]_vars

\* the handle of l1 was called while l2 was subscribed as well
C24_Witness ==
    /\ last.op = "unsubscribe"
    /\ subscribers = <<"l2">>
    /\ tState["count"] = 1

\* C25: subscribing a listener that is already subscribed produces a warning and keeps
\* the duplicate registration: the listener is registered once more than before.
C25_DuplicateKept ==
    [][last'.op = "subscribe" => \A l \in TwoListeners :
          (l \in Subscribed(subscribers) /\ TSubscribe(l)) =>
             /\ outcome'.warned
             /\ Cardinality({i \in 1..Len(subscribers') : subscribers'[i] = l}) =
                   Cardinality({i \in 1..Len(subscribers) : subscribers[i] = l}) + 1]_vars

\* C26: a defineStore of the legacy store that constructs throws exactly when the initial
\* state (the initializer's result with the restored item laid over it) has one of the
\* keys $id, $state, $patch, $reset, $subscribe; it then registers nothing, so the id
\* stays unregistered and a defineStore that finds the id unregistered constructs again;
\* a construction that does not throw registers the id.
C26_ReservedKeyAborts ==
    /\ []((lLast.op = "defineStore" /\ ~lLast.hit) =>
            /\ lLast.threw =
                  (\E k \in {"$id", "$state", "$patch", "$reset", "$subscribe"} :
                      k \in DOMAIN lLast.initial
                         \/ (~lLast.fails /\ lLast.item # Malformed /\ k \in DOMAIN lLast.item))
            /\ lLast.threw = (lStoreInstances[lLast.id] = None))
    /\ [][(lLast'.op = "defineStore" /\ lLast'.threw) =>
            (lStoreInstances' = lStoreInstances /\ lStoreInstances[lLast'.id] = None)]_vars
    /\ [][lLast'.op = "defineStore" =>
            (lLast'.hit = (lStoreInstances[lLast'.id] # None))]_vars

\* defineStore threw because the restored item brought the key $patch; no legacy store
\* has been constructed yet and the id is not registered
C26_Witness ==
    /\ lLast.op = "defineStore" /\ lLast.threw
    /\ "$patch" \in DOMAIN lLast.item
    /\ DOMAIN lLast.initial = {"count", "obj"}
    /\ lStoreInstances[lLast.id] = None
    /\ lCount = 0

\* -------------------------------------------------------------------
\*  Properties of the notifications of the getter-caching store
\* -------------------------------------------------------------------

\* C27: in the getter-caching store the changes handed to the listeners hold only the
\* properties the notified transaction modified: after a $patch made outside every
\* action, each key of the changes is a field whose value the $patch changed, so a field
\* patched with the value it already has is absent and a $patch that changes nothing
\* invokes no listener.
C27_ChangesOnlyModified ==
    (gLast.op = "patch" /\ gStack = <<>>) =>
        \A i \in 1..Len(gNotified) : DOMAIN gNotified[i].changes \subseteq gLast.changed

\* the stores whose action wrapper is running
Running == {gStack[i] : i \in 1..Len(gStack)}

\* C28: in the getter-caching store no subscriber of a store is invoked while an action
\* of that store is still executing, whatever the action does ($patch, a sibling
\* action, further writes): the subscribers are invoked when the outermost action
\* returns.
C28_NotifiesAtOutermostReturn ==
    \A i \in 1..Len(gNotified) : gNotified[i].store \notin Running

\* -------------------------------------------------------------------
\*  Properties of getter chains
\* -------------------------------------------------------------------

\* the chain banner reads greeting reads doubledCount reads count
Chain == {"user/banner", "user/greeting", "counter/doubledCount"}

\* C29: in the getter-caching store, for the chain of getters banner reads greeting
\* reads doubledCount reads the field count, whatever the order in which the getters
\* were evaluated, an assignment that changes count while all three are cached removes
\* all three cache entries.
C29_ChainInvalidated ==
    (gLast.op = "write" /\ gLast.key = "counter/count" /\ gLast.changed # {}
        /\ Chain \subseteq gLast.had)
      => Chain \cap DOMAIN globalGetterCache = {}

\* C30: in the getter-caching store the dependencies of a getter are those of its latest
\* computation: when summary is cached and its latest computation did not read the
\* field count (log was truthy), whatever its earlier computations read, an assignment
\* that changes count leaves the cache entry of summary in place.
C30_StaleDependencyDropped ==
    (gLast.op = "write" /\ gLast.key = "counter/count" /\ gLast.changed # {}
        /\ "user/summary" \in gLast.had
        /\ "counter/count" \notin globalGetterToDependencies["user/summary"])
      => "user/summary" \in DOMAIN globalGetterCache

\* -------------------------------------------------------------------
\*  Properties of async actions
\* -------------------------------------------------------------------

\* C31: in the transactional store no write performed by an async action invocation is
\* notified before that invocation's promise has settled, also when the invocation was
\* started while another async action's transaction was open, whichever of the two
\* settles first: in the program of two overlapping async actions a listener gets count
\* in a delta only when the promise of the action that writes count has settled, and
\* obj only when the promise of the action that writes obj has settled.
C31_NotifiedAfterOwnSettle ==
    \A i \in 1..Len(notified) :
        /\ "count" \in DOMAIN notified[i].delta => pending.outer = 0
        /\ "obj" \in DOMAIN notified[i].delta => pending.nested = 0

C33_DeltaIsNetChange ==
    (last.op \in {"return", "settle"} /\ last.outer) =>
        \A i \in 1..Len(notified) :
            \A k \in DOMAIN notified[i].state \cap DOMAIN notified[i].prev :
                (~IsObject(notified[i].state[k]) /\ ~IsObject(notified[i].prev[k]))
                   => (k \in DOMAIN notified[i].delta
                          <=> notified[i].state[k] # notified[i].prev[k])

\* C34: in the transactional store, for every listener invocation the state argument is
\* the current state, delta[k] is state[k] at delivery for every key k of the delta
\* (undefined for a removed field), and previousSnapshot holds the field values as they
\* were when the transaction opened: batchOldState, taken from the state at the
\* outermost invocation and left alone while the transaction is open, for a close; the
\* state just before the step for a direct write, $patch or $reset.
C34_ListenerArguments ==
    /\ [](\A i \in 1..Len(notified) :
            /\ notified[i].state = tState
            /\ \A k \in DOMAIN notified[i].delta :
                  notified[i].delta[k] =
                     (IF k \in DOMAIN tState THEN tState[k] ELSE Undefined)
            /\ last.op \in {"return", "settle"} => notified[i].prev = batchOldState)
    /\ [][/\ (last'.op = "call" /\ last'.outer) => batchOldState' = tState
          /\ (isUpdating /\ isUpdating') => batchOldState' = batchOldState
          /\ last'.op \in {"write", "patch", "reset"} =>
                \A i \in 1..Len(notified') : notified'[i].prev = tState]_vars

\* -------------------------------------------------------------------
\*  Properties of the shape of the state
\* -------------------------------------------------------------------

\* C35: in the transactional store the root field names of the state are fixed by the
\* construction: a direct write, a $patch (also one that names an undeclared field) and
\* an action leave the set of field names as it is; only $reset removes fields, and it
\* adds none.
C35_FieldNamesFixed ==
    /\ [][last'.op \in {"write", "patch", "call", "return"} =>
             DOMAIN tState' = DOMAIN tState]_vars
    /\ [][last'.op = "reset" => DOMAIN tState' \subseteq DOMAIN tState]_vars

\* -------------------------------------------------------------------
\*  Properties of the active-getter stack
\* -------------------------------------------------------------------

\* C36: in the getter-caching store globalActiveGetters is empty whenever no getter
\* evaluation is in progress, also after a getter function has thrown; so a read of a
\* state field made outside every getter evaluation registers no dependency.
C36_ActiveStackEmpty ==
    /\ [](globalActiveGetters = <<>>)
    /\ [][\A p \in PropKeys :
             GGet(p) => UNCHANGED <<globalPropertyToGetters, globalGetterToDependencies>>]_vars

====
